---- MODULE Spec2Model ----
(***************************************************************************)
(* Model of the health-check engine of go-health (health.go, options.go):  *)
(* the registry filled by Health.Register, and one Health.Check run with   *)
(* its dispatcher loop, the limiter channel, the wait group, one runner    *)
(* goroutine per check, the goroutine that calls the check function, the   *)
(* timeout race and the aggregation of status and failures.                *)
(***************************************************************************)
EXTENDS Integers, FiniteSets, Sequences, TLC

(* ---------------------------- bounds ----------------------------------- *)

\* largest value of Health.maxConcurrent explored (NumCPU / WithMaxConcurrent)
MaxCap == 2

\* largest number of options passed to NewHealth
MaxOpts == 3

\* runtime.NumCPU() of the host
NumCPU == 2

\* check names handed to Register; "" is the empty name
Names == {"", "a", "b"}

\* Check.Timeout values handed to Register, in seconds
Timeouts == {-1, 0, 5}

\* identities of the check functions handed to Register
Ops == {"f", "g"}

\* the check function each caller of Register passes
OpOf(r) == IF r = "r1" THEN "f" ELSE "g"

\* error messages a check function can return
Msgs == {"boom"}

\* goroutines that call Register, one call each
Regs == {"r1", "r2"}

(* ---------------------------- constants of the code -------------------- *)

StatusOK == "OK"
StatusPartiallyAvailable == "Partially Available"
StatusUnavailable == "Unavailable"
StatusTimeout == "Timeout during health check"

\* time.Second * 2, the timeout Register stores for a zero Timeout
DefaultTimeout == 2

\* the message recorded for a check whose timer fired first
TimeoutMsg == "Timeout"

\* the nil error
Nil == "nil"

(* ---------------------------- state ------------------------------------ *)

VARIABLES
    checks,         \* Health.checks: map name -> Check
    maxConcurrent,  \* Health.maxConcurrent
    systemInfo,     \* Health.systemInfo
    hmu,            \* Health.mu: "free" or its holder
    rpc,            \* per Register caller: position in Register
    rin,            \* per Register caller: the Check passed to Register
    rc,             \* per Register caller: the local c after defaulting
    rret,           \* per Register caller: what its call returned
    cpc,            \* position of the Check call
    probes,         \* the checks the range loop of this run iterates over
    todo,           \* checks the range loop has not yet reached
    limiter,        \* number of values buffered in limiterCh
    wg,             \* counter of the sync.WaitGroup
    mu,             \* the run's aggregation mutex: "free" or its holder
    status,         \* the run's status variable
    failures,       \* the run's failures map
    runner,         \* per check: position of its runner goroutine
    inner,          \* per check: state of the goroutine calling c.Check
    res,            \* per check: the value c.Check returned
    outcome,        \* per check: the branch of the select its runner took
    report,         \* the Result returned by Check
    component,      \* Health.component
    npc,            \* position of the NewHealth call
    opts,           \* the options passed to NewHealth
    oi,             \* number of options NewHealth has applied
    cks             \* WithChecks: the checks not yet registered

vars == <<checks, maxConcurrent, systemInfo, hmu, rpc, rin, rc, rret,
          cpc, probes, todo, limiter, wg, mu, status, failures, runner,
          inner, res, outcome, report, component, npc, opts, oi, cks>>

regVars == <<rpc, rin, rc, rret>>
runVars == <<cpc, probes, todo, limiter, wg, mu, status, failures, runner,
             inner, res, outcome, report>>
conVars == <<component, npc, opts, oi, cks>>

\* values of Health.maxConcurrent: runtime.NumCPU() or the n given to
\* WithMaxConcurrent, which takes any int
MaxConcurrentValues == -1..MaxCap

\* the goroutine that calls NewHealth
Ctor == "r1"

\* the options of options.go
WithChecksOpt(cs) == [kind |-> "checks", n |-> 0, checks |-> cs]
WithComponentOpt == [kind |-> "component", n |-> 0, checks |-> <<>>]
WithMaxConcurrentOpt(n) == [kind |-> "maxc", n |-> n, checks |-> <<>>]
WithSystemInfoOpt == [kind |-> "sysinfo", n |-> 0, checks |-> <<>>]

\* a check as NewHealth's caller writes it, by its name
CheckNamed(nm) == [Name |-> nm, Timeout |-> 0, SkipOnErr |-> FALSE, Check |-> OpOf(Ctor)]

\* the argument lists given to WithChecks
CheckLists == {<<CheckNamed("a")>>, <<CheckNamed("b")>>, <<CheckNamed("")>>,
               <<CheckNamed("a"), CheckNamed("b")>>,
               <<CheckNamed("a"), CheckNamed("a")>>,
               <<CheckNamed("a"), CheckNamed("")>>}

OptionValues ==
    {WithChecksOpt(cs) : cs \in CheckLists}
    \cup {WithMaxConcurrentOpt(n) : n \in MaxConcurrentValues}
    \cup {WithComponentOpt, WithSystemInfoOpt}

\* the option lists given to NewHealth
OptionLists == UNION {[1..k -> OptionValues] : k \in 0..MaxOpts}

\* the Check values caller r can pass to Register
CheckInputs(r) ==
    [Name : Names, Timeout : Timeouts, SkipOnErr : BOOLEAN, Check : {OpOf(r)}]

NoCheck == [Name |-> "", Timeout |-> 0, SkipOnErr |-> FALSE, Check |-> "f"]

\* the zero Component and the one WithComponent is given
NoComponent == [Name |-> "", Version |-> ""]
Comp == [Name |-> "svc", Version |-> "1"]

NoReport == [Status |-> "none", Failures |-> <<>>, System |-> "nil",
             Component |-> NoComponent]

\* runner positions between `go func(c Check)` and the release of its slot
InFlight == {"start", "select", "gotTimeout", "gotRes", "lockedTimeout",
             "lockedRes", "recorded", "unlocked"}

(* ---------------------------- pure functions --------------------------- *)

\* getAvailability without the test that keeps Unavailable
getAvailability_NotAbsorbing(s, skipOnErr) ==
    IF skipOnErr
    THEN StatusPartiallyAvailable
    ELSE StatusUnavailable

getAvailability(s, skipOnErr) ==
    IF skipOnErr /\ s # StatusUnavailable
    THEN StatusPartiallyAvailable
    ELSE StatusUnavailable

\* m[k] = v on a Go map
MapSet(m, k, v) == [x \in DOMAIN m \cup {k} |-> IF x = k THEN v ELSE m[x]]

(* ---------------------------- construction ----------------------------- *)

Init ==
    /\ checks = <<>>
    /\ maxConcurrent \in MaxConcurrentValues
    /\ systemInfo = TRUE
    /\ hmu = "free"
    /\ rpc = [r \in Regs |-> "idle"]
    /\ rin = [r \in Regs |-> NoCheck]
    /\ rc = [r \in Regs |-> NoCheck]
    /\ rret = [r \in Regs |-> "none"]
    /\ cpc = "idle"
    /\ probes = {}
    /\ todo = {}
    /\ limiter = 0
    /\ wg = 0
    /\ mu = "free"
    /\ status = StatusOK
    /\ failures = <<>>
    /\ runner = [p \in Names |-> "none"]
    /\ inner = [p \in Names |-> "none"]
    /\ res = [p \in Names |-> Nil]
    /\ outcome = [p \in Names |-> "none"]
    /\ report = NoReport
    /\ component = NoComponent
    /\ npc = "ok"
    /\ opts = <<WithMaxConcurrentOpt(maxConcurrent)>>
    /\ oi = 1
    /\ cks = <<>>

(* ---------------------------- Register --------------------------------- *)

\* RegisterBegin without the test of the name
RegisterBegin_NoNameCheck(r, c) ==
    /\ rpc[r] = "idle"
    /\ rin' = [rin EXCEPT ![r] = c]
    /\ rc' = [rc EXCEPT ![r] =
                 IF c.Timeout = 0 THEN [c EXCEPT !.Timeout = DefaultTimeout] ELSE c]
    /\ rret' = [rret EXCEPT ![r] = "none"]
    /\ rpc' = [rpc EXCEPT ![r] = "lock"]
    /\ UNCHANGED <<checks, maxConcurrent, systemInfo, hmu>>
    /\ UNCHANGED runVars
    /\ UNCHANGED conVars

\* Register, lines 95-101: default the timeout of the local copy, reject the
\* empty name before the lock is taken
RegisterBegin(r, c) ==
    /\ rpc[r] = "idle"
    /\ rin' = [rin EXCEPT ![r] = c]
    /\ LET d == IF c.Timeout = 0 THEN [c EXCEPT !.Timeout = DefaultTimeout] ELSE c
       IN /\ rc' = [rc EXCEPT ![r] = d]
          /\ IF d.Name = ""
             THEN /\ rret' = [rret EXCEPT ![r] = "errName"]
                  /\ rpc' = [rpc EXCEPT ![r] = "done"]
             ELSE /\ rret' = [rret EXCEPT ![r] = "none"]
                  /\ rpc' = [rpc EXCEPT ![r] = "lock"]
    /\ UNCHANGED <<checks, maxConcurrent, systemInfo, hmu>>
    /\ UNCHANGED runVars
    /\ UNCHANGED conVars

\* Register, line 103: h.mu.Lock()
RegisterLock(r) ==
    /\ rpc[r] = "lock"
    /\ hmu = "free"
    /\ hmu' = r
    /\ rpc' = [rpc EXCEPT ![r] = "locked"]
    /\ UNCHANGED <<checks, maxConcurrent, systemInfo, rin, rc, rret>>
    /\ UNCHANGED runVars
    /\ UNCHANGED conVars

\* RegisterStore that stores before it looks the name up
RegisterStore_Overwrite(r) ==
    /\ rpc[r] = "locked"
    /\ hmu = r
    /\ rret' = [rret EXCEPT ![r] =
                   IF rc[r].Name \in DOMAIN checks THEN "errDup" ELSE "nil"]
    /\ checks' = MapSet(checks, rc[r].Name, rc[r])
    /\ hmu' = "free"
    /\ rpc' = [rpc EXCEPT ![r] = "done"]
    /\ UNCHANGED <<maxConcurrent, systemInfo, rin, rc>>
    /\ UNCHANGED runVars
    /\ UNCHANGED conVars

\* Register, lines 106-112 and the deferred h.mu.Unlock()
RegisterStore(r) ==
    /\ rpc[r] = "locked"
    /\ hmu = r
    /\ IF rc[r].Name \in DOMAIN checks
       THEN /\ rret' = [rret EXCEPT ![r] = "errDup"]
            /\ checks' = checks
       ELSE /\ rret' = [rret EXCEPT ![r] = "nil"]
            /\ checks' = MapSet(checks, rc[r].Name, rc[r])
    /\ hmu' = "free"
    /\ rpc' = [rpc EXCEPT ![r] = "done"]
    /\ UNCHANGED <<maxConcurrent, systemInfo, rin, rc>>
    /\ UNCHANGED runVars
    /\ UNCHANGED conVars

(* ---------------------------- Check: the dispatcher -------------------- *)

\* Check, lines 116-123: h.mu.Lock(), status, failures, make(chan bool, n).
\* make panics on a negative size; the deferred h.mu.Unlock() then runs.
CheckLock ==
    /\ cpc = "idle"
    /\ hmu = "free"
    /\ status' = StatusOK
    /\ failures' = <<>>
    /\ limiter' = 0
    /\ IF maxConcurrent < 0
       THEN /\ cpc' = "panic"
            /\ hmu' = "free"
            /\ UNCHANGED <<probes, todo>>
       ELSE /\ cpc' = "dispatch"
            /\ hmu' = "check"
            /\ probes' = DOMAIN checks
            /\ todo' = DOMAIN checks
    /\ UNCHANGED <<checks, maxConcurrent, systemInfo>>
    /\ UNCHANGED regVars
    /\ UNCHANGED conVars
    /\ UNCHANGED <<wg, mu, runner, inner, res, outcome, report>>

\* Dispatch without the send on limiterCh gating the start of a runner
Dispatch_NoLimiter(p) ==
    /\ cpc = "dispatch"
    /\ p \in todo
    /\ limiter' = limiter + 1
    /\ wg' = wg + 1
    /\ todo' = todo \ {p}
    /\ runner' = [runner EXCEPT ![p] = "start"]
    /\ UNCHANGED <<checks, maxConcurrent, systemInfo, hmu>>
    /\ UNCHANGED regVars
    /\ UNCHANGED conVars
    /\ UNCHANGED <<cpc, probes, mu, status, failures, inner, res, outcome, report>>

\* Check, lines 130-134: the next check of the range loop (any order),
\* limiterCh <- true, wg.Add(1), go func(c Check)
Dispatch(p) ==
    /\ cpc = "dispatch"
    /\ p \in todo
    /\ limiter < maxConcurrent
    /\ limiter' = limiter + 1
    /\ wg' = wg + 1
    /\ todo' = todo \ {p}
    /\ runner' = [runner EXCEPT ![p] = "start"]
    /\ UNCHANGED <<checks, maxConcurrent, systemInfo, hmu>>
    /\ UNCHANGED regVars
    /\ UNCHANGED conVars
    /\ UNCHANGED <<cpc, probes, mu, status, failures, inner, res, outcome, report>>

\* Check, line 164: the range loop ends
DispatchEnd ==
    /\ cpc = "dispatch"
    /\ todo = {}
    /\ cpc' = "wait"
    /\ UNCHANGED <<checks, maxConcurrent, systemInfo, hmu>>
    /\ UNCHANGED regVars
    /\ UNCHANGED conVars
    /\ UNCHANGED <<probes, todo, limiter, wg, mu, status, failures, runner,
                   inner, res, outcome, report>>

\* CheckReturn without wg.Wait()
CheckReturn_NoWait ==
    /\ cpc = "wait"
    /\ report' = [Status |-> status,
                  Failures |-> failures,
                  System |-> IF systemInfo THEN "metrics" ELSE "nil",
                  Component |-> component]
    /\ cpc' = "returned"
    /\ hmu' = "free"
    /\ UNCHANGED <<checks, maxConcurrent, systemInfo>>
    /\ UNCHANGED regVars
    /\ UNCHANGED conVars
    /\ UNCHANGED <<probes, todo, limiter, wg, mu, status, failures, runner,
                   inner, res, outcome>>

\* Check, lines 166-180: wg.Wait(), the system metrics, the Result, and the
\* deferred close(limiterCh) and h.mu.Unlock()
CheckReturn ==
    /\ cpc = "wait"
    /\ wg = 0
    /\ report' = [Status |-> status,
                  Failures |-> failures,
                  System |-> IF systemInfo THEN "metrics" ELSE "nil",
                  Component |-> component]
    /\ cpc' = "returned"
    /\ hmu' = "free"
    /\ UNCHANGED <<checks, maxConcurrent, systemInfo>>
    /\ UNCHANGED regVars
    /\ UNCHANGED conVars
    /\ UNCHANGED <<probes, todo, limiter, wg, mu, status, failures, runner,
                   inner, res, outcome>>

(* ---------------------------- Check: one runner ------------------------ *)

\* lines 140-148: make(chan error), go func() { resCh <- c.Check(ctx) },
\* and the select is entered, which starts the timer of time.After
RunnerStart(p) ==
    /\ runner[p] = "start"
    /\ runner' = [runner EXCEPT ![p] = "select"]
    /\ inner' = [inner EXCEPT ![p] = "running"]
    /\ UNCHANGED <<checks, maxConcurrent, systemInfo, hmu>>
    /\ UNCHANGED regVars
    /\ UNCHANGED conVars
    /\ UNCHANGED <<cpc, probes, todo, limiter, wg, mu, status, failures,
                   res, outcome, report>>

\* line 143: c.Check(ctx) returns v (nil or an error); a check function that
\* hangs never takes this step
OpReturn(p, v) ==
    /\ inner[p] = "running"
    /\ inner' = [inner EXCEPT ![p] = "returned"]
    /\ res' = [res EXCEPT ![p] = v]
    /\ UNCHANGED <<checks, maxConcurrent, systemInfo, hmu>>
    /\ UNCHANGED regVars
    /\ UNCHANGED conVars
    /\ UNCHANGED <<cpc, probes, todo, limiter, wg, mu, status, failures,
                   runner, outcome, report>>

\* InnerSend whose receiver drops the error it was sent
InnerSend_DropsError(p) ==
    /\ inner[p] = "returned"
    /\ runner[p] = "select"
    /\ inner' = [inner EXCEPT ![p] = "done"]
    /\ runner' = [runner EXCEPT ![p] = "gotRes"]
    /\ outcome' = [outcome EXCEPT ![p] = "ok"]
    /\ UNCHANGED <<checks, maxConcurrent, systemInfo, hmu>>
    /\ UNCHANGED regVars
    /\ UNCHANGED conVars
    /\ UNCHANGED <<cpc, probes, todo, limiter, wg, mu, status, failures,
                   res, report>>

\* lines 143-144 and 154: the send on the unbuffered resCh completes only
\* while the runner waits in the select; then the deferred close(resCh)
InnerSend(p) ==
    /\ inner[p] = "returned"
    /\ runner[p] = "select"
    /\ inner' = [inner EXCEPT ![p] = "done"]
    /\ runner' = [runner EXCEPT ![p] = "gotRes"]
    /\ outcome' = [outcome EXCEPT ![p] = IF res[p] = Nil THEN "ok" ELSE "err"]
    /\ UNCHANGED <<checks, maxConcurrent, systemInfo, hmu>>
    /\ UNCHANGED regVars
    /\ UNCHANGED conVars
    /\ UNCHANGED <<cpc, probes, todo, limiter, wg, mu, status, failures,
                   res, report>>

\* TimerFire for a runner that reads the timer after it has read resCh too
TimerFire_NotExclusive(p) ==
    /\ runner[p] \in {"select", "gotRes"}
    /\ runner' = [runner EXCEPT ![p] = "gotTimeout"]
    /\ outcome' = [outcome EXCEPT ![p] = "timeout"]
    /\ UNCHANGED <<checks, maxConcurrent, systemInfo, hmu>>
    /\ UNCHANGED regVars
    /\ UNCHANGED conVars
    /\ UNCHANGED <<cpc, probes, todo, limiter, wg, mu, status, failures,
                   inner, res, report>>

\* line 148: the timer of time.After(c.Timeout) fires while the runner waits
TimerFire(p) ==
    /\ runner[p] = "select"
    /\ runner' = [runner EXCEPT ![p] = "gotTimeout"]
    /\ outcome' = [outcome EXCEPT ![p] = "timeout"]
    /\ UNCHANGED <<checks, maxConcurrent, systemInfo, hmu>>
    /\ UNCHANGED regVars
    /\ UNCHANGED conVars
    /\ UNCHANGED <<cpc, probes, todo, limiter, wg, mu, status, failures,
                   inner, res, report>>

\* RunnerLock without the mutex
RunnerLock_NoMutex(p) ==
    /\ runner[p] \in {"gotTimeout", "gotRes"}
    /\ mu' = p
    /\ runner' = [runner EXCEPT ![p] =
                     IF runner[p] = "gotTimeout" THEN "lockedTimeout" ELSE "lockedRes"]
    /\ UNCHANGED <<checks, maxConcurrent, systemInfo, hmu>>
    /\ UNCHANGED regVars
    /\ UNCHANGED conVars
    /\ UNCHANGED <<cpc, probes, todo, limiter, wg, status, failures, inner,
                   res, outcome, report>>

\* lines 149 and 155: mu.Lock()
RunnerLock(p) ==
    /\ runner[p] \in {"gotTimeout", "gotRes"}
    /\ mu = "free"
    /\ mu' = p
    /\ runner' = [runner EXCEPT ![p] =
                     IF runner[p] = "gotTimeout" THEN "lockedTimeout" ELSE "lockedRes"]
    /\ UNCHANGED <<checks, maxConcurrent, systemInfo, hmu>>
    /\ UNCHANGED regVars
    /\ UNCHANGED conVars
    /\ UNCHANGED <<cpc, probes, todo, limiter, wg, status, failures, inner,
                   res, outcome, report>>

\* RunnerRecord that records the failure of a check with SkipOnErr and leaves
\* the status alone
RunnerRecord_SkipKeepsStatus(p) ==
    /\ runner[p] \in {"lockedTimeout", "lockedRes"}
    /\ mu = p
    /\ IF runner[p] = "lockedTimeout" \/ res[p] # Nil
       THEN /\ failures' = MapSet(failures, checks[p].Name,
                                  IF runner[p] = "lockedTimeout"
                                  THEN TimeoutMsg ELSE res[p])
            /\ status' = IF checks[p].SkipOnErr
                         THEN status
                         ELSE getAvailability(status, checks[p].SkipOnErr)
       ELSE UNCHANGED <<failures, status>>
    /\ runner' = [runner EXCEPT ![p] = "recorded"]
    /\ UNCHANGED <<checks, maxConcurrent, systemInfo, hmu>>
    /\ UNCHANGED regVars
    /\ UNCHANGED conVars
    /\ UNCHANGED <<cpc, probes, todo, limiter, wg, mu, inner, res, outcome, report>>

\* RunnerRecord that leaves a check with SkipOnErr out of failures
RunnerRecord_SkipUnrecorded(p) ==
    /\ runner[p] \in {"lockedTimeout", "lockedRes"}
    /\ mu = p
    /\ IF runner[p] = "lockedTimeout" \/ res[p] # Nil
       THEN /\ failures' = IF checks[p].SkipOnErr
                           THEN failures
                           ELSE MapSet(failures, checks[p].Name,
                                       IF runner[p] = "lockedTimeout"
                                       THEN TimeoutMsg ELSE res[p])
            /\ status' = getAvailability(status, checks[p].SkipOnErr)
       ELSE UNCHANGED <<failures, status>>
    /\ runner' = [runner EXCEPT ![p] = "recorded"]
    /\ UNCHANGED <<checks, maxConcurrent, systemInfo, hmu>>
    /\ UNCHANGED regVars
    /\ UNCHANGED conVars
    /\ UNCHANGED <<cpc, probes, todo, limiter, wg, mu, inner, res, outcome, report>>

\* RunnerRecord without the `if res != nil` of the result branch
RunnerRecord_NilIsFailure(p) ==
    /\ runner[p] \in {"lockedTimeout", "lockedRes"}
    /\ mu = p
    /\ failures' = MapSet(failures, checks[p].Name,
                          IF runner[p] = "lockedTimeout" THEN TimeoutMsg ELSE res[p])
    /\ status' = getAvailability(status, checks[p].SkipOnErr)
    /\ runner' = [runner EXCEPT ![p] = "recorded"]
    /\ UNCHANGED <<checks, maxConcurrent, systemInfo, hmu>>
    /\ UNCHANGED regVars
    /\ UNCHANGED conVars
    /\ UNCHANGED <<cpc, probes, todo, limiter, wg, mu, inner, res, outcome, report>>

\* lines 152-153 and 158-161: the update of failures and status
RunnerRecord(p) ==
    /\ runner[p] \in {"lockedTimeout", "lockedRes"}
    /\ mu = p
    /\ IF runner[p] = "lockedTimeout"
       THEN /\ failures' = MapSet(failures, checks[p].Name, TimeoutMsg)
            /\ status' = getAvailability(status, checks[p].SkipOnErr)
       ELSE IF res[p] # Nil
            THEN /\ failures' = MapSet(failures, checks[p].Name, res[p])
                 /\ status' = getAvailability(status, checks[p].SkipOnErr)
            ELSE UNCHANGED <<failures, status>>
    /\ runner' = [runner EXCEPT ![p] = "recorded"]
    /\ UNCHANGED <<checks, maxConcurrent, systemInfo, hmu>>
    /\ UNCHANGED regVars
    /\ UNCHANGED conVars
    /\ UNCHANGED <<cpc, probes, todo, limiter, wg, mu, inner, res, outcome, report>>

\* lines 150 and 156: the deferred mu.Unlock(), run first on the way out
RunnerUnlock(p) ==
    /\ runner[p] = "recorded"
    /\ mu = p
    /\ mu' = "free"
    /\ runner' = [runner EXCEPT ![p] = "unlocked"]
    /\ UNCHANGED <<checks, maxConcurrent, systemInfo, hmu>>
    /\ UNCHANGED regVars
    /\ UNCHANGED conVars
    /\ UNCHANGED <<cpc, probes, todo, limiter, wg, status, failures, inner,
                   res, outcome, report>>

\* RunnerRelease that gives the slot back on the result branch only
RunnerRelease_NotOnTimeout(p) ==
    /\ runner[p] = "unlocked"
    /\ limiter > 0
    /\ limiter' = IF outcome[p] = "timeout" THEN limiter ELSE limiter - 1
    /\ runner' = [runner EXCEPT ![p] = "released"]
    /\ UNCHANGED <<checks, maxConcurrent, systemInfo, hmu>>
    /\ UNCHANGED regVars
    /\ UNCHANGED conVars
    /\ UNCHANGED <<cpc, probes, todo, wg, mu, status, failures, inner, res,
                   outcome, report>>

\* line 136: the deferred <-limiterCh
RunnerRelease(p) ==
    /\ runner[p] = "unlocked"
    /\ limiter > 0
    /\ limiter' = limiter - 1
    /\ runner' = [runner EXCEPT ![p] = "released"]
    /\ UNCHANGED <<checks, maxConcurrent, systemInfo, hmu>>
    /\ UNCHANGED regVars
    /\ UNCHANGED conVars
    /\ UNCHANGED <<cpc, probes, todo, wg, mu, status, failures, inner, res,
                   outcome, report>>

\* line 137: the deferred wg.Done()
RunnerDone(p) ==
    /\ runner[p] = "released"
    /\ wg' = wg - 1
    /\ runner' = [runner EXCEPT ![p] = "done"]
    /\ UNCHANGED <<checks, maxConcurrent, systemInfo, hmu>>
    /\ UNCHANGED regVars
    /\ UNCHANGED conVars
    /\ UNCHANGED <<cpc, probes, todo, limiter, mu, status, failures, inner,
                   res, outcome, report>>

(* ---------------------------- specification ---------------------------- *)

\* ---------------------------------------------------------------------
\* NewHealth: the options are applied in order to a fresh Health; the first
\* option that returns an error ends the construction with a nil engine.

hVars == <<checks, maxConcurrent, systemInfo, hmu>>

\* the Health built by NewHealth before any option is applied
InitNew ==
    /\ checks = <<>>
    /\ maxConcurrent = NumCPU
    /\ systemInfo = TRUE
    /\ hmu = "free"
    /\ rpc = [r \in Regs |-> "idle"]
    /\ rin = [r \in Regs |-> NoCheck]
    /\ rc = [r \in Regs |-> NoCheck]
    /\ rret = [r \in Regs |-> "none"]
    /\ cpc = "idle"
    /\ probes = {}
    /\ todo = {}
    /\ limiter = 0
    /\ wg = 0
    /\ mu = "free"
    /\ status = StatusOK
    /\ failures = <<>>
    /\ runner = [p \in Names |-> "none"]
    /\ inner = [p \in Names |-> "none"]
    /\ res = [p \in Names |-> Nil]
    /\ outcome = [p \in Names |-> "none"]
    /\ report = NoReport
    /\ component = NoComponent
    /\ npc = "loop"
    /\ opts \in OptionLists
    /\ oi = 0
    /\ cks = <<>>

\* the option NewHealth applies next
NextOpt == opts[oi + 1]

\* WithComponent: sets the component
WithComponent ==
    /\ npc = "loop"
    /\ oi < Len(opts)
    /\ NextOpt.kind = "component"
    /\ component' = Comp
    /\ oi' = oi + 1
    /\ UNCHANGED <<npc, opts, cks>>
    /\ UNCHANGED hVars
    /\ UNCHANGED regVars
    /\ UNCHANGED runVars

\* WithMaxConcurrent: stores n as it is given
WithMaxConcurrent ==
    /\ npc = "loop"
    /\ oi < Len(opts)
    /\ NextOpt.kind = "maxc"
    /\ maxConcurrent' = NextOpt.n
    /\ oi' = oi + 1
    /\ UNCHANGED <<component, npc, opts, cks>>
    /\ UNCHANGED <<checks, systemInfo, hmu>>
    /\ UNCHANGED regVars
    /\ UNCHANGED runVars

\* WithSystemInfo: sets systemInfo to true
WithSystemInfo ==
    /\ npc = "loop"
    /\ oi < Len(opts)
    /\ NextOpt.kind = "sysinfo"
    /\ systemInfo' = TRUE
    /\ oi' = oi + 1
    /\ UNCHANGED <<component, npc, opts, cks>>
    /\ UNCHANGED <<checks, maxConcurrent, hmu>>
    /\ UNCHANGED regVars
    /\ UNCHANGED runVars

\* WithChecks: the option starts its loop over the checks it was given
WithChecks ==
    /\ npc = "loop"
    /\ oi < Len(opts)
    /\ NextOpt.kind = "checks"
    /\ cks' = NextOpt.checks
    /\ npc' = "checks"
    /\ UNCHANGED <<component, opts, oi>>
    /\ UNCHANGED hVars
    /\ UNCHANGED regVars
    /\ UNCHANGED runVars

\* WithChecks: h.Register(c) is called for the next check
WithChecksCall ==
    /\ npc = "checks"
    /\ cks # <<>>
    /\ RegisterBegin(Ctor, Head(cks))

\* WithChecks, if every Register error were dropped
WithChecksReturn_IgnoresError ==
    /\ npc = "checks"
    /\ rpc[Ctor] = "done"
    /\ cks' = Tail(cks)
    /\ rpc' = [rpc EXCEPT ![Ctor] = "idle"]
    /\ UNCHANGED npc
    /\ UNCHANGED <<component, opts, oi>>
    /\ UNCHANGED hVars
    /\ UNCHANGED <<rin, rc, rret>>
    /\ UNCHANGED runVars

\* WithChecks: Register has returned; an error ends the option and with it
\* NewHealth, which returns nil and the error
WithChecksReturn ==
    /\ npc = "checks"
    /\ rpc[Ctor] = "done"
    /\ IF rret[Ctor] = "nil"
       THEN /\ cks' = Tail(cks)
            /\ rpc' = [rpc EXCEPT ![Ctor] = "idle"]
            /\ UNCHANGED npc
       ELSE /\ npc' = "failed"
            /\ UNCHANGED <<cks, rpc>>
    /\ UNCHANGED <<component, opts, oi>>
    /\ UNCHANGED hVars
    /\ UNCHANGED <<rin, rc, rret>>
    /\ UNCHANGED runVars

\* WithChecks: every check is registered, the option returns nil
WithChecksEnd ==
    /\ npc = "checks"
    /\ cks = <<>>
    /\ rpc[Ctor] = "idle"
    /\ npc' = "loop"
    /\ oi' = oi + 1
    /\ UNCHANGED <<component, opts, cks>>
    /\ UNCHANGED hVars
    /\ UNCHANGED regVars
    /\ UNCHANGED runVars

\* NewHealth: every option returned nil, the engine is returned
NewHealthReturn ==
    /\ npc = "loop"
    /\ oi = Len(opts)
    /\ npc' = "ok"
    /\ UNCHANGED <<component, opts, oi, cks>>
    /\ UNCHANGED hVars
    /\ UNCHANGED regVars
    /\ UNCHANGED runVars

\* one Check call on the engine NewHealth returned
CheckRun ==
    \/ CheckLock
    \/ \E p \in Names : Dispatch(p)
    \/ DispatchEnd
    \/ CheckReturn
    \/ \E p \in Names : RunnerStart(p)
    \/ \E p \in Names, v \in {Nil} \cup Msgs : OpReturn(p, v)
    \/ \E p \in Names : InnerSend(p)
    \/ \E p \in Names : TimerFire(p)
    \/ \E p \in Names : RunnerLock(p)
    \/ \E p \in Names : RunnerRecord(p)
    \/ \E p \in Names : RunnerUnlock(p)
    \/ \E p \in Names : RunnerRelease(p)
    \/ \E p \in Names : RunnerDone(p)

NewNext ==
    \/ WithComponent
    \/ WithMaxConcurrent
    \/ WithSystemInfo
    \/ WithChecks
    \/ WithChecksCall
    \/ RegisterLock(Ctor)
    \/ RegisterStore(Ctor)
    \/ WithChecksReturn
    \/ WithChecksEnd
    \/ NewHealthReturn
    \/ npc = "ok" /\ CheckRun

NewSpec == InitNew /\ [][NewNext]_vars

Next ==
    \/ \E r \in Regs : \E c \in CheckInputs(r) : RegisterBegin(r, c)
    \/ \E r \in Regs : RegisterLock(r)
    \/ \E r \in Regs : RegisterStore(r)
    \/ CheckLock
    \/ \E p \in Names : Dispatch(p)
    \/ DispatchEnd
    \/ CheckReturn
    \/ \E p \in Names : RunnerStart(p)
    \/ \E p \in Names, v \in {Nil} \cup Msgs : OpReturn(p, v)
    \/ \E p \in Names : InnerSend(p)
    \/ \E p \in Names : TimerFire(p)
    \/ \E p \in Names : RunnerLock(p)
    \/ \E p \in Names : RunnerRecord(p)
    \/ \E p \in Names : RunnerUnlock(p)
    \/ \E p \in Names : RunnerRelease(p)
    \/ \E p \in Names : RunnerDone(p)

Spec == Init /\ [][Next]_vars

\* The scheduler runs every goroutine that can take a step, every mutex and
\* channel operation that stays possible is eventually done, and every timer
\* fires. Nothing makes a caller call Register, and nothing makes a check
\* function return.
Fairness ==
    /\ \A r \in Regs : WF_vars(RegisterLock(r)) /\ WF_vars(RegisterStore(r))
    /\ WF_vars(CheckLock)
    /\ WF_vars(DispatchEnd)
    /\ WF_vars(CheckReturn)
    /\ \A p \in Names :
          /\ WF_vars(Dispatch(p))
          /\ WF_vars(RunnerStart(p))
          /\ WF_vars(InnerSend(p))
          /\ WF_vars(TimerFire(p))
          /\ WF_vars(RunnerLock(p))
          /\ WF_vars(RunnerRecord(p))
          /\ WF_vars(RunnerUnlock(p))
          /\ WF_vars(RunnerRelease(p))
          /\ WF_vars(RunnerDone(p))

FairSpec == Init /\ [][Next]_vars /\ Fairness

(* ---------------------------- properties ------------------------------ *)

\* runners started by the dispatcher that have not yet released their slot
InFlightRunners == {p \in Names : runner[p] \in InFlight}

\* checks of the run whose runner took the timer branch or received an error
Failing == {p \in probes : outcome[p] \in {"err", "timeout"}}

\* C1: with maxConcurrent = n >= 1, at most n runners are started and have not
\* yet released their slot; every slot held belongs to exactly one of them; and
\* while n runners are in flight the dispatcher cannot start another one (so
\* with n = 1 a runner starts only after the previous one released its slot).
C1_BoundedRunners ==
    maxConcurrent >= 1 =>
        /\ Cardinality(InFlightRunners) <= maxConcurrent
        /\ limiter = Cardinality(InFlightRunners)
        /\ Cardinality(InFlightRunners) = maxConcurrent =>
               \A p \in Names : ~ENABLED Dispatch(p)

\* C1 witness: the cap is 1, one runner is in flight and the dispatcher is
\* held back with a check still to start
C1_Witness ==
    /\ maxConcurrent = 1
    /\ cpc = "dispatch"
    /\ todo # {}
    /\ Cardinality(InFlightRunners) = 1

\* C2: when Check has returned, every check that was registered when the run
\* started (the registry cannot change during the run) has a finished runner
\* and an outcome, and a failing outcome is in the returned failures; the
\* Result is the final status and failures.
C2_ReturnAfterAllRunners ==
    /\ cpc \in {"dispatch", "wait"} => probes = DOMAIN checks
    /\ cpc = "returned" =>
        /\ wg = 0
        /\ \A p \in probes :
              /\ runner[p] = "done"
              /\ outcome[p] # "none"
              /\ outcome[p] \in {"err", "timeout"} => p \in DOMAIN report.Failures
        /\ report.Status = status
        /\ report.Failures = failures

\* C2 witness: Check returned from a run over two checks, one of which timed out
C2_Witness ==
    /\ cpc = "returned"
    /\ Cardinality(probes) = 2
    /\ \E p \in probes : outcome[p] = "timeout"

\* C3: with maxConcurrent >= 1, a run that has started dispatching eventually
\* returns whatever the check functions do, and at its return every check whose
\* function has not returned is in the returned failures as "Timeout".
C3_RunReturns ==
    (cpc = "dispatch" /\ maxConcurrent >= 1) ~>
        (/\ cpc = "returned"
         /\ \A p \in probes :
               inner[p] = "running" =>
                   /\ p \in DOMAIN report.Failures
                   /\ report.Failures[p] = TimeoutMsg)

\* C3 witness: with a cap of 1, Check returned from a run over two checks
\* while the function of one of them is still running, recorded as "Timeout"
C3_Witness ==
    /\ maxConcurrent = 1
    /\ cpc = "returned"
    /\ Cardinality(probes) = 2
    /\ \E p \in probes :
          /\ inner[p] = "running"
          /\ p \in DOMAIN report.Failures
          /\ report.Failures[p] = TimeoutMsg

\* the status the claim C4 gives for the failing checks of the run
ExpectedStatus ==
    IF \E p \in Failing : ~checks[p].SkipOnErr
    THEN StatusUnavailable
    ELSE IF Failing # {}
         THEN StatusPartiallyAvailable
         ELSE StatusOK

\* C4: the returned status is Unavailable iff some failing check has
\* SkipOnErr = false, PartiallyAvailable iff some check failed and all failing
\* checks have SkipOnErr = true, OK otherwise, in every order of completion.
C4_StatusOfReport ==
    cpc = "returned" => report.Status = ExpectedStatus

\* C4 witness: two checks failed, one with SkipOnErr and one without
C4_Witness ==
    /\ cpc = "returned"
    /\ report.Status = StatusUnavailable
    /\ \E p, q \in Failing : checks[p].SkipOnErr /\ ~checks[q].SkipOnErr

\* C5: the keys of the returned failures are exactly the checks whose runner
\* took the timer branch or received an error; the former map to "Timeout",
\* the latter to the message the function returned, whatever SkipOnErr is.
C5_FailuresOfReport ==
    cpc = "returned" =>
        /\ DOMAIN report.Failures = Failing
        /\ \A p \in Failing :
              report.Failures[p] =
                  IF outcome[p] = "timeout" THEN TimeoutMsg ELSE res[p]

\* C5 witness: a timed-out check with SkipOnErr and an errored check, besides
C5_Witness ==
    /\ cpc = "returned"
    /\ \E p, q \in probes :
          /\ outcome[p] = "timeout" /\ checks[p].SkipOnErr
          /\ outcome[q] = "err" /\ report.Failures[q] \in Msgs

C7_DuplicateRejected ==
    [][/\ \A n \in DOMAIN checks :
             n \in DOMAIN checks' /\ checks'[n] = checks[n]
       /\ \A n \in DOMAIN checks' : checks'[n].Name = n
       /\ \A r \in Regs :
             (rpc[r] = "locked" /\ rpc'[r] = "done" /\ rc[r].Name \in DOMAIN checks) =>
                 /\ rret'[r] = "errDup"
                 /\ checks' = checks]_vars

\* C7 witness: a Register was refused as a duplicate of a stored check that
\* differs from the one it passed
C7_Witness ==
    \E r \in Regs :
        /\ rret[r] = "errDup"
        /\ rc[r].Name \in DOMAIN checks
        /\ checks[rc[r].Name].Timeout # rc[r].Timeout
        /\ checks[rc[r].Name].SkipOnErr # rc[r].SkipOnErr
        /\ checks[rc[r].Name].Check # rc[r].Check

\* C8: a Register with the empty name returns the name error without changing
\* the registry, and the registry never holds the empty name.
C8_EmptyNameRejected ==
    [][/\ \A r \in Regs :
             (rpc[r] = "idle" /\ rpc'[r] # "idle" /\ rin'[r].Name = "") =>
                 /\ rret'[r] = "errName"
                 /\ rpc'[r] = "done"
                 /\ checks' = checks
       /\ "" \notin DOMAIN checks']_vars

\* C8 witness: a Register with the empty name was refused while the registry
\* holds a check
C8_Witness ==
    \E r \in Regs :
        /\ rin[r].Name = ""
        /\ rret[r] = "errName"
        /\ DOMAIN checks # {}

\* C9: a successful Register of a check whose timeout is <= 0 stores it with
\* the timeout of 2 seconds, hence every stored check has a timeout > 0.
C9_TimeoutDefaulted ==
    /\ \A r \in Regs :
          (rret[r] = "nil" /\ rin[r].Timeout <= 0) =>
              checks[rin[r].Name].Timeout = DefaultTimeout
    /\ \A n \in DOMAIN checks : checks[n].Timeout > 0

\* C10: with maxConcurrent = n >= 1, at most n check functions have been
\* called by the run and have not yet returned (with n = 1 one at a time).
C10_BoundedOperations ==
    maxConcurrent >= 1 =>
        Cardinality({p \in Names : inner[p] = "running"}) <= maxConcurrent

\* runner positions after the update of failures and status
Recorded == {"recorded", "unlocked", "released", "done"}

\* runner positions inside the section guarded by the aggregation mutex
Critical == {"lockedTimeout", "lockedRes", "recorded"}

\* C12: every runner takes one branch of the select and keeps it; failures
\* and status change only in the one update of a runner whose outcome is an
\* error or a timeout, a runner never comes back to the select or the update,
\* and when Check returns every check of the run has an outcome.
C12_OneOutcome ==
    [][/\ \A p \in Names :
             /\ outcome[p] # "none" => outcome'[p] = outcome[p]
             /\ runner[p] \in Recorded => runner'[p] \in Recorded
       /\ (failures' # failures \/ status' # status) =>
             \E p \in Names :
                 /\ runner[p] \in {"lockedTimeout", "lockedRes"}
                 /\ runner'[p] = "recorded"
                 /\ outcome[p] \in {"err", "timeout"}
                 /\ DOMAIN failures' = DOMAIN failures \cup {p}
       /\ cpc' = "returned" => \A p \in probes' : outcome'[p] # "none"]_vars

\* C12 witness: the function of a check had returned and its timer fired;
\* the runner finished with the timer branch alone
C12_Witness ==
    \E p \in probes :
        /\ runner[p] = "done"
        /\ inner[p] = "returned"
        /\ outcome[p] = "timeout"
        /\ failures[p] = TimeoutMsg

\* the order OK < PartiallyAvailable < Unavailable
Severity(s) ==
    IF s = StatusOK THEN 0 ELSE IF s = StatusPartiallyAvailable THEN 1 ELSE 2

\* C13: during a run the status never moves down in severity, Unavailable is
\* kept by every later update whatever the SkipOnErr of its check, and the
\* update of a runner that received nil changes neither status nor failures.
C13_StatusMonotone ==
    [][(cpc \in {"dispatch", "wait"}) =>
          (/\ Severity(status') >= Severity(status)
           /\ status = StatusUnavailable => status' = StatusUnavailable
           /\ \A p \in Names :
                 (runner[p] = "lockedRes" /\ res[p] = Nil /\ runner'[p] = "recorded") =>
                     (status' = status /\ failures' = failures))
      ]_vars

\* C13 witness: the failure of a check with SkipOnErr has just been folded
\* and the status is Unavailable
C13_Witness ==
    \E p \in probes :
        /\ runner[p] = "recorded"
        /\ checks[p].SkipOnErr
        /\ outcome[p] \in {"err", "timeout"}
        /\ status = StatusUnavailable

\* C14 as stated: once the function of a check has returned and its runner
\* has no outcome yet, the outcome is never "timeout".
C14_FirstEventDecides ==
    [][\A p \in Names :
          (inner[p] = "returned" /\ outcome[p] = "none") =>
              outcome'[p] # "timeout"]_vars

\* C14 as amended: the outcome is the branch the select takes. It is the
\* result of the function (ok for nil, err for an error) exactly when the send
\* on resCh was received, and "timeout" when the timer branch was taken before
\* that, after which the send never completes, also for a function that had
\* already returned.
C14_SelectDecides ==
    \A p \in Names :
        /\ outcome[p] = "ok" => (inner[p] = "done" /\ res[p] = Nil)
        /\ outcome[p] = "err" => (inner[p] = "done" /\ res[p] \in Msgs)
        /\ outcome[p] = "timeout" => inner[p] \in {"running", "returned"}
        /\ inner[p] = "done" => outcome[p] \in {"ok", "err"}
        /\ runner[p] \in Recorded =>
              (p \in DOMAIN failures <=> outcome[p] \in {"err", "timeout"})

\* C14 witness: the timer branch was taken for a check whose function has
\* returned nil
C14_Witness ==
    \E p \in probes :
        /\ runner[p] \in Recorded
        /\ outcome[p] = "timeout"
        /\ inner[p] = "returned"
        /\ res[p] = Nil
        /\ failures[p] = TimeoutMsg

\* C15: while a run waits for its checks in the select, Check does not hold
\* the registry lock, so a Register that waits for the lock can take it.
C15_LockOnlyForSnapshot ==
    (cpc \in {"dispatch", "wait"} /\ \E p \in Names : runner[p] = "select") =>
        /\ hmu # "check"
        /\ \A r \in Regs : rpc[r] = "lock" => ENABLED RegisterLock(r)

\* C16: at most one runner is inside the update section, the aggregation
\* mutex is held exactly by that runner, and it is held neither by a runner
\* waiting in the select nor by one that releases its slot; failures and
\* status are constant while no runner is in the section.
C16_UpdatesExclusive ==
    /\ Cardinality({p \in Names : runner[p] \in Critical}) <= 1
    /\ \A p \in Names : runner[p] \in Critical <=> mu = p
    /\ \A p \in Names : runner[p] \in {"select", "unlocked"} => mu # p
    /\ \A p \in Names :
          runner[p] \in {"lockedTimeout", "lockedRes"} => p \notin DOMAIN failures

\* C16 witness: one runner is in the update section while another one, past
\* its select, waits for the mutex
C16_Witness ==
    \E p, q \in probes :
        /\ p # q
        /\ runner[p] \in {"lockedTimeout", "lockedRes"}
        /\ runner[q] \in {"gotTimeout", "gotRes"}

\* C19: the goroutine that calls the function of a check is never left with
\* a result it cannot deliver: after the timer branch was taken and the
\* function has returned, its send on resCh can still complete.
C19_SenderNotBlocked ==
    \A p \in Names :
        (inner[p] = "returned" /\ outcome[p] = "timeout") => ENABLED InnerSend(p)

\* C20: while no runner is in the update section, the status is OK exactly
\* when failures is empty, and so it is in the returned Result.
C20_StatusMatchesFailures ==
    /\ mu = "free" => (status = StatusOK <=> failures = <<>>)
    /\ cpc = "returned" => (report.Status = StatusOK <=> report.Failures = <<>>)

\* C20 witness: only checks with SkipOnErr failed in a run that has returned
C20_Witness ==
    /\ cpc = "returned"
    /\ report.Status = StatusPartiallyAvailable
    /\ report.Failures # <<>>


\* ---------------------------------------------------------------------
\* Construction

\* the options NewHealth has applied
Applied == SubSeq(opts, 1, oi)

RECURSIVE ChecksIn(_)
\* the number of checks the options os hand to WithChecks
ChecksIn(os) ==
    IF os = <<>> THEN 0 ELSE Len(Head(os).checks) + ChecksIn(Tail(os))

RECURSIVE LastMaxConcurrent(_)
\* the maxConcurrent left by applying the options os in order
LastMaxConcurrent(os) ==
    IF os = <<>> THEN NumCPU
    ELSE IF os[Len(os)].kind = "maxc" THEN os[Len(os)].n
    ELSE LastMaxConcurrent(SubSeq(os, 1, Len(os) - 1))

\* some option of os is of kind k
HasOpt(os, k) == \E i \in 1..Len(os) : os[i].kind = k

\* C11: NewHealth applies the options in order and stops at the first one
\* that returns an error. When it returns no engine, the option it stopped at
\* is a WithChecks whose current Register call returned an error, the Health
\* carries exactly the effect of the options before it and of the checks
\* before the failing one, and no Check runs on it. When it returns an
\* engine, every option was applied and every check given to WithChecks is
\* registered under its own non-empty name.
C11_FirstErrorEnds ==
    /\ npc = "failed" =>
          /\ oi < Len(opts)
          /\ NextOpt.kind = "checks"
          /\ cks # <<>>
          /\ rret[Ctor] \in {"errName", "errDup"}
          /\ Head(cks).Name = "" \/ Head(cks).Name \in DOMAIN checks
          /\ maxConcurrent = LastMaxConcurrent(Applied)
          /\ component = (IF HasOpt(Applied, "component") THEN Comp ELSE NoComponent)
          /\ Cardinality(DOMAIN checks)
                = ChecksIn(Applied) + Len(NextOpt.checks) - Len(cks)
          /\ cpc = "idle"
          /\ report = NoReport
    /\ npc = "ok" =>
          /\ oi = Len(opts)
          /\ maxConcurrent = LastMaxConcurrent(opts)
          /\ component = (IF HasOpt(opts, "component") THEN Comp ELSE NoComponent)
          /\ Cardinality(DOMAIN checks) = ChecksIn(opts)
          /\ "" \notin DOMAIN checks
    /\ npc # "ok" => cpc = "idle"

\* NewHealth has returned an error after registering one check of the failing
\* WithChecks, and the option after it, a WithMaxConcurrent with another
\* value, was not applied
C11_Witness ==
    /\ npc = "failed"
    /\ Len(cks) < Len(NextOpt.checks)
    /\ oi + 1 < Len(opts)
    /\ opts[oi + 2].kind = "maxc"
    /\ opts[oi + 2].n # maxConcurrent

\* C17: every engine NewHealth returns has maxConcurrent > 0, and a Check
\* that has probes left to dispatch and no slot taken can dispatch one.
C17_PositiveConcurrency ==
    /\ npc = "ok" => maxConcurrent > 0
    /\ (cpc = "dispatch" /\ todo # {} /\ limiter = 0)
          => ENABLED (\E p \in Names : Dispatch(p))

\* C18: a report carries system metrics if and only if the engine was built
\* with the WithSystemInfo option.
C18_MetricsOnlyIfEnabled ==
    cpc = "returned" =>
        ((report.System = "metrics") <=> HasOpt(opts, "sysinfo"))

====
